---- MODULE Spec2Model ----
(***************************************************************************)
(* The DVID resource manager: the broker's server loop                     *)
(* (dvid_resource_manager/server.py) and the client's AccessContext        *)
(* (dvid_resource_manager/client.py), as one state machine.                *)
(*                                                                         *)
(* JSON objects are records, the empty object {} is the empty function,    *)
(* Python dicts are functions whose DOMAIN is the set of keys, the deque    *)
(* is a sequence whose first element is the left end.                      *)
(***************************************************************************)
EXTENDS Integers, Sequences, FiniteSets, TLC

\* ---------------------------------------------------------------- bounds
\* Request messages the broker numbers in one run (ids 0 .. MaxId-1).
MaxId == 3
\* numopts of a request is drawn from 1 .. MaxOps.
MaxOps == 2
\* datasize of a request is drawn from 0 .. MaxData.
MaxData == 1
\* Number of low-level clients.
NumClients == 2

\* Resource names requests may carry.
Resources == {"r1", "r2"}
\* Ceilings a config may carry for the two request counts and the two data sums.
ReqCeilings == {1, 2}
DataCeilings == {1}

VARIABLES
    \* ---- the broker (ResourceManagerServer.run and its methods)
    debug,               \* the --debug flag
    running,             \* FALSE once an exception has left the server loop
    config,              \* self.config
    resource_limits,     \* self.resource_limits: resource name -> ServerStats
    current_work_items,  \* self.current_work_items: id -> request
    work_items,          \* self.work_items: deque of <<priority, request>>
    clientid,            \* the local clientid of run()
    publish_list,        \* the local publish_list of run()
    \* ---- what the last loop iteration did on its sockets
    lastMsg,             \* the message it received (type "none": none yet, "poll": poll timeout)
    replies,             \* the replies it sent on comm_socket, in order
    published,           \* the messages it sent on pub_socket, in order
    \* ---- history
    loweredSince,        \* ids that were held when a config message last lowered a ceiling
    assigned,            \* the ids the broker has put in its replies to request messages, in order
    \* ---- the clients (_ResourceManagerClient with its AccessContext)
    pc,                  \* where each client is in __enter__ / body / __exit__
    request_id,          \* AccessContext.request_id
    accessing,           \* _ResourceManagerClient._currently_accessing
    chan,                \* the message a client's REQ socket has sent and the broker not yet read
    inbox,               \* the reply waiting on a client's REQ socket
    heard,               \* whether a matching publication reached the client's SUB socket
    orphans              \* messages sent on REQ sockets that were closed after a timeout

serverVars == <<debug, running, config, resource_limits, current_work_items,
                work_items, clientid, publish_list>>
ioVars == <<lastMsg, replies, published>>
clientVars == <<pc, request_id, accessing, chan, inbox, heard, orphans>>
vars == <<serverVars, ioVars, loweredSince, assigned, clientVars>>

Clients == 1 .. NumClients

\* The empty JSON object {}.
EmptyObj == [k \in {} |-> 0]
\* No message / no reply on a socket.
None == [none |-> TRUE]

\* ----------------------------------------------------------- the messages
\* ConfigSchema: four integer fields.
Configs == [read_reqs : ReqCeilings, read_data : DataCeilings,
            write_reqs : ReqCeilings, write_data : DataCeilings]

\* _attempt_acquire's req_data (RequestMessageSchema).
RequestMessages == [type : {"request"}, resource : Resources, read : BOOLEAN,
                    numopts : 1 .. MaxOps, datasize : 0 .. MaxData]
\* _wait_for_acquire's msg (HoldMessageSchema).
HoldMessages == [type : {"hold"}, id : 0 .. MaxId - 1]
\* _release's msg (ReleaseMessageSchema).
ReleaseMessages == [type : {"release"}, id : 0 .. MaxId - 1]
\* reconfigure_server's message (ConfigMessageSchema).
ConfigMessages == [type : {"config"}, config : Configs]
\* read_config's message.
ReadConfigMessage == [type |-> "read-config"]
\* A message whose type the broker does not know.
UnknownMessage == [type |-> "bogus"]

\* jsonschema.validate(request, ReceivedMessageSchema): the message matches
\* exactly one of the four schemas of the oneOf. The messages of this model are
\* well typed, so the type decides.
ValidReceived(request) == request.type \in {"request", "hold", "release", "config"}

\* ------------------------------------------------------- the publications
\* "%d" % n for n >= 0: the decimal digits, most significant first.
DigitChars == <<"0", "1", "2", "3", "4", "5", "6", "7", "8", "9">>
RECURSIVE Digits(_)
Digits(n) == IF n < 10 THEN <<DigitChars[n + 1]>>
             ELSE Digits(n \div 10) \o <<DigitChars[(n % 10) + 1]>>

\* b"%d %d" % (cid, 1)
PubMessage(cid) == Digits(cid) \o <<" ">> \o Digits(1)

\* zmq.SUBSCRIBE: a subscription matches every message it is a prefix of.
IsPrefix(p, s) == Len(p) <= Len(s) /\ SubSeq(s, 1, Len(p)) = p

\* str(request_id).encode('utf-8') as the subscription of _wait_for_acquire.
Subscription(id) == Digits(id)

\* ------------------------------------------------------------ accounting
\* ServerStats.__init__
ZeroStats == [read_reqs |-> 0, read_data |-> 0, write_reqs |-> 0, write_data |-> 0]

\* Mutant of AddStats: every request is counted as a read.
MutAddStatsAsRead(stats, request) ==
    [stats EXCEPT !.read_reqs = @ + request.numopts,
                  !.read_data = @ + request.datasize]

\* The four += of request_resource / is_available.
AddStats(stats, request) ==
    IF request.read
    THEN [stats EXCEPT !.read_reqs = @ + request.numopts,
                       !.read_data = @ + request.datasize]
    ELSE [stats EXCEPT !.write_reqs = @ + request.numopts,
                       !.write_data = @ + request.datasize]

\* Mutant of SubStats: a release that counts one operation per request.
MutSubStatsOne(stats, request) ==
    IF request.read
    THEN [stats EXCEPT !.read_reqs = @ - 1, !.read_data = @ - request.datasize]
    ELSE [stats EXCEPT !.write_reqs = @ - 1, !.write_data = @ - request.datasize]

\* The four -= of finish_work.
SubStats(stats, request) ==
    IF request.read
    THEN [stats EXCEPT !.read_reqs = @ - request.numopts,
                       !.read_data = @ - request.datasize]
    ELSE [stats EXCEPT !.write_reqs = @ - request.numopts,
                       !.write_data = @ - request.datasize]

\* Mutant of is_available: the test on the counters as they are, before the
\* request is added.
MutIsAvailableCurrent(request, curr_stats, cfg) ==
    ~ \/ curr_stats.read_reqs >= cfg.read_reqs
      \/ curr_stats.read_data >= cfg.read_data
      \/ curr_stats.write_reqs >= cfg.write_reqs
      \/ curr_stats.write_data >= cfg.write_data

\* Mutant of is_available: one ceiling on the operations of both directions.
MutIsAvailableShared(request, curr_stats, cfg) ==
    LET new_stats == AddStats(curr_stats, request)
    IN  /\ new_stats.read_reqs + new_stats.write_reqs <= cfg.read_reqs
        /\ new_stats.read_data <= cfg.read_data
        /\ new_stats.read_reqs + new_stats.write_reqs <= cfg.write_reqs
        /\ new_stats.write_data <= cfg.write_data

\* is_available(request, curr_stats) under the config cfg (self.config).
is_available(request, curr_stats, cfg) ==
    LET new_stats == AddStats(curr_stats, request)
    IN  /\ new_stats.read_reqs <= cfg.read_reqs
        /\ new_stats.read_data <= cfg.read_data
        /\ new_stats.write_reqs <= cfg.write_reqs
        /\ new_stats.write_data <= cfg.write_data

\* Mutant of request_resource: the ceilings are applied to the counters of all
\* resources together.
MutRequestResourceGlobal(limits, current, request, cfg) ==
    LET limits1 == IF request.resource \in DOMAIN limits
                   THEN limits
                   ELSE (request.resource :> ZeroStats) @@ limits
        stats == limits1[request.resource]
        others == DOMAIN limits1 \ {request.resource}
        total == IF others = {} THEN stats
                 ELSE LET o == limits1[CHOOSE R \in others : TRUE]
                      IN  [read_reqs |-> stats.read_reqs + o.read_reqs,
                           read_data |-> stats.read_data + o.read_data,
                           write_reqs |-> stats.write_reqs + o.write_reqs,
                           write_data |-> stats.write_data + o.write_data]
    IN  IF is_available(request, total, cfg)
        THEN [ok |-> TRUE,
              limits |-> [limits1 EXCEPT ![request.resource] = AddStats(stats, request)],
              current |-> (request.id :> request) @@ current]
        ELSE [ok |-> FALSE, limits |-> limits1, current |-> current]

\* request_resource(request) on the dicts limits and current: the value it
\* returns (ok) and the dicts as it leaves them.
request_resource(limits, current, request, cfg) ==
    LET limits1 == IF request.resource \in DOMAIN limits
                   THEN limits
                   ELSE (request.resource :> ZeroStats) @@ limits
        stats == limits1[request.resource]
    IN  IF is_available(request, stats, cfg)
        THEN [ok |-> TRUE,
              limits |-> [limits1 EXCEPT ![request.resource] = AddStats(stats, request)],
              current |-> (request.id :> request) @@ current]
        ELSE [ok |-> FALSE, limits |-> limits1, current |-> current]

\* Mutant of find_work: the head that does not fit is put back at the tail
\* (append for appendleft).
MutFindWorkRequeueTail(limits, current, items, cfg) ==
    LET priority == items[1][1]
        work_item == items[1][2]
        popped == Tail(items)
        rr == request_resource(limits, current, work_item, cfg)
    IN  IF rr.ok
        THEN [cid |-> work_item.id, limits |-> rr.limits, current |-> rr.current,
              items |-> popped]
        ELSE [cid |-> -1, limits |-> rr.limits, current |-> rr.current,
              items |-> Append(popped, <<priority, work_item>>)]

\* Mutant of find_work: the head is read and never popped, so a waiter that is
\* granted stays in the deque.
MutFindWorkNoPop(limits, current, items, cfg) ==
    LET work_item == items[1][2]
        rr == request_resource(limits, current, work_item, cfg)
    IN  IF rr.ok
        THEN [cid |-> work_item.id, limits |-> rr.limits, current |-> rr.current,
              items |-> items]
        ELSE [cid |-> -1, limits |-> rr.limits, current |-> rr.current,
              items |-> items]

\* Mutant of find_work: the first waiter that fits is taken, wherever it stands
\* in the deque.
MutFindWorkFirstFit(limits, current, items, cfg) ==
    LET fits == {i \in DOMAIN items :
                    request_resource(limits, current, items[i][2], cfg).ok}
        head == request_resource(limits, current, items[1][2], cfg)
    IN  IF fits # {}
        THEN LET i == CHOOSE j \in fits : \A k \in fits : j <= k
                 rr == request_resource(limits, current, items[i][2], cfg)
             IN  [cid |-> items[i][2].id, limits |-> rr.limits, current |-> rr.current,
                  items |-> SubSeq(items, 1, i - 1) \o SubSeq(items, i + 1, Len(items))]
        ELSE [cid |-> -1, limits |-> head.limits, current |-> head.current,
              items |-> items]

\* find_work(): pops the head, tries it, and puts it back when it does not fit.
find_work(limits, current, items, cfg) ==
    LET priority == items[1][1]
        work_item == items[1][2]
        popped == Tail(items)
        rr == request_resource(limits, current, work_item, cfg)
    IN  IF rr.ok
        THEN [cid |-> work_item.id, limits |-> rr.limits, current |-> rr.current,
              items |-> popped]
        ELSE [cid |-> -1, limits |-> rr.limits, current |-> rr.current,
              items |-> <<<<priority, work_item>>>> \o popped]

\* Mutant of finish_work: the release gives back the operations and keeps the
\* data counted.
MutFinishWorkKeepData(limits, current, curr_id) ==
    LET request == current[curr_id]
        rest == [k \in DOMAIN current \ {curr_id} |-> current[k]]
        stats == limits[request.resource]
    IN  [limits |-> [limits EXCEPT ![request.resource] =
                        IF request.read
                        THEN [stats EXCEPT !.read_reqs = @ - request.numopts]
                        ELSE [stats EXCEPT !.write_reqs = @ - request.numopts]],
         current |-> rest]

\* finish_work(curr_id) for an id that is a key of current.
finish_work(limits, current, curr_id) ==
    LET request == current[curr_id]
        rest == [k \in DOMAIN current \ {curr_id} |-> current[k]]
        stats == limits[request.resource]
    IN  [limits |-> [limits EXCEPT ![request.resource] = SubStats(stats, request)],
         current |-> rest]

\* Mutant of Drain: an if for the while, so that one release grants one waiter.
MutDrainOnce(limits, current, items, plist, pubs, cfg) ==
    IF Len(items) > 0
    THEN LET fw == find_work(limits, current, items, cfg)
         IN  [limits |-> fw.limits, current |-> fw.current, items |-> fw.items,
              plist |-> IF fw.cid # -1 THEN plist \cup {fw.cid} ELSE plist,
              pubs |-> IF fw.cid # -1 THEN Append(pubs, PubMessage(fw.cid)) ELSE pubs]
    ELSE [limits |-> limits, current |-> current, items |-> items,
          plist |-> plist, pubs |-> pubs]

\* The "find work and publish" loop of the release branch.
RECURSIVE Drain(_, _, _, _, _, _)
Drain(limits, current, items, plist, pubs, cfg) ==
    IF Len(items) > 0
    THEN LET fw == find_work(limits, current, items, cfg)
         IN  IF fw.cid # -1
             THEN Drain(fw.limits, fw.current, fw.items, plist \cup {fw.cid},
                        Append(pubs, PubMessage(fw.cid)), cfg)
             ELSE [limits |-> fw.limits, current |-> fw.current, items |-> fw.items,
                   plist |-> plist, pubs |-> pubs]
    ELSE [limits |-> limits, current |-> current, items |-> items,
          plist |-> plist, pubs |-> pubs]

\* ------------------------------------------------- the broker's loop body
\* The publications of one loop iteration reach the SUB socket of every client
\* whose subscription is active and is a prefix of one of them.
Deliver(pubs) ==
    heard' = [c \in Clients |->
                 \/ heard[c]
                 \/ /\ pc[c] = "waiting"
                    /\ \E i \in 1 .. Len(pubs) :
                          IsPrefix(Subscription(request_id[c]), pubs[i])]

\* An exception leaves the loop after the replies `sent` went out: the finally
\* clause destroys the zmq context and the process ends, and with it the dicts,
\* the deque and the locals of run(). Only what went over the sockets remains.
Raise(sent) ==
    /\ running' = FALSE
    /\ replies' = sent
    /\ published' = <<>>
    /\ resource_limits' = EmptyObj
    /\ current_work_items' = EmptyObj
    /\ work_items' = <<>>
    /\ publish_list' = {}
    /\ clientid' = 0
    /\ loweredSince' = {}
    /\ UNCHANGED <<config, assigned>>

\* Mutant of DoRequest: clientid is advanced only for a request that is granted.
MutDoRequestReuseId(request) ==
    LET req == [type |-> "request", resource |-> request.resource,
                read |-> request.read, numopts |-> request.numopts,
                datasize |-> request.datasize, id |-> clientid]
        rr == request_resource(resource_limits, current_work_items, req, config)
    IN  /\ clientid' = IF rr.ok THEN clientid + 1 ELSE clientid
        /\ resource_limits' = rr.limits
        /\ current_work_items' = rr.current
        /\ work_items' = IF rr.ok THEN work_items ELSE Append(work_items, <<0, req>>)
        /\ replies' = <<[available |-> rr.ok, id |-> req.id]>>
        /\ published' = <<>>
        /\ assigned' = Append(assigned, req.id)
        /\ UNCHANGED <<running, config, publish_list, loweredSince>>

\* request["type"] == "request"
DoRequest(request) ==
    LET req == [type |-> "request", resource |-> request.resource,
                read |-> request.read, numopts |-> request.numopts,
                datasize |-> request.datasize, id |-> clientid]
        rr == request_resource(resource_limits, current_work_items, req, config)
    IN  /\ clientid' = clientid + 1
        /\ resource_limits' = rr.limits
        /\ current_work_items' = rr.current
        /\ work_items' = IF rr.ok THEN work_items ELSE Append(work_items, <<0, req>>)
        /\ replies' = <<[available |-> rr.ok, id |-> req.id]>>
        /\ published' = <<>>
        /\ assigned' = Append(assigned, req.id)
        /\ UNCHANGED <<running, config, publish_list, loweredSince>>

\* request["type"] == "hold": set.remove raises KeyError for an absent id,
\* before the reply is sent.
DoHold(request) ==
    IF request.id \in publish_list
    THEN /\ publish_list' = publish_list \ {request.id}
         /\ replies' = <<EmptyObj>>
         /\ published' = <<>>
         /\ UNCHANGED <<running, config, resource_limits, current_work_items,
                        work_items, clientid, loweredSince, assigned>>
    ELSE Raise(<<>>)

\* Mutant of DoRelease: the counters are given back and the request stays in
\* current_work_items, so that a second release of the id is accepted.
MutDoReleaseKeepEntry(request) ==
    IF request.id \in DOMAIN current_work_items
    THEN \E fin \in {finish_work(resource_limits, current_work_items, request.id)} :
         \E dr \in {Drain(fin.limits, current_work_items, work_items, publish_list, <<>>, config)} :
             /\ resource_limits' = dr.limits
             /\ current_work_items' = dr.current
             /\ work_items' = dr.items
             /\ publish_list' = dr.plist
             /\ published' = dr.pubs
             /\ replies' = <<EmptyObj>>
             /\ loweredSince' = loweredSince \ {request.id}
             /\ UNCHANGED <<running, config, clientid, assigned>>
    ELSE Raise(<<>>)

\* request["type"] == "release": finish_work raises KeyError for an id that is
\* not a key of current_work_items, before the reply is sent.
DoRelease(request) ==
    IF request.id \in DOMAIN current_work_items
    THEN \E fin \in {finish_work(resource_limits, current_work_items, request.id)} :
         \E dr \in {Drain(fin.limits, fin.current, work_items, publish_list, <<>>, config)} :
             /\ resource_limits' = dr.limits
             /\ current_work_items' = dr.current
             /\ work_items' = dr.items
             /\ publish_list' = dr.plist
             /\ published' = dr.pubs
             /\ replies' = <<EmptyObj>>
             /\ loweredSince' = loweredSince \ {request.id}
             /\ UNCHANGED <<running, config, clientid, assigned>>
    ELSE Raise(<<>>)

\* Whether new lowers one of the four ceilings of old.
Lowers(old, new) ==
    \/ new.read_reqs < old.read_reqs
    \/ new.read_data < old.read_data
    \/ new.write_reqs < old.write_reqs
    \/ new.write_data < old.write_data

\* Mutant of DoConfig: the reconfiguration starts the accounting afresh.
MutDoConfigRevoke(request) ==
    /\ config' = request.config
    /\ replies' = <<request.config>>
    /\ published' = <<>>
    /\ resource_limits' = EmptyObj
    /\ current_work_items' = EmptyObj
    /\ loweredSince' = {}
    /\ UNCHANGED <<running, work_items, clientid, publish_list, assigned>>

\* request["type"] == "config"
DoConfig(request) ==
    /\ config' = request.config
    /\ replies' = <<request.config>>
    /\ published' = <<>>
    /\ loweredSince' = IF Lowers(config, request.config)
                       THEN DOMAIN current_work_items
                       ELSE loweredSince
    /\ UNCHANGED <<running, resource_limits, current_work_items, work_items,
                   clientid, publish_list, assigned>>

\* The final else: the reply {} and then the exception.
DoUnknown(request) == Raise(<<EmptyObj>>)

\* One iteration of the loop that has received `request`.
Handle(request) ==
    /\ running
    /\ lastMsg' = request
    /\ debug' = debug
    /\ IF debug /\ ~ValidReceived(request) THEN Raise(<<>>)
       ELSE IF request.type = "request" THEN DoRequest(request)
       ELSE IF request.type = "hold" THEN DoHold(request)
       ELSE IF request.type = "release" THEN DoRelease(request)
       ELSE IF request.type = "config" THEN DoConfig(request)
       ELSE DoUnknown(request)
    /\ Deliver(published')

\* The orders in which a for loop may go through the set S.
Orderings(S) ==
    {s \in [1 .. Cardinality(S) -> S] : \A i, j \in DOMAIN s : i # j => s[i] # s[j]}

\* Mutant of Republish: the notification of every granted id is sent again,
\* acknowledged or not.
MutRepublishGranted ==
    /\ running
    /\ publish_list # {}
    /\ \E order \in Orderings(DOMAIN current_work_items) :
          published' = [i \in DOMAIN order |-> PubMessage(order[i])]
    /\ lastMsg' = [type |-> "poll"]
    /\ replies' = <<>>
    /\ Deliver(published')
    /\ UNCHANGED <<serverVars, loweredSince, assigned, pc, request_id, accessing, chan,
                   inbox, orphans>>

\* The poll of PUBDELAY ms timed out with publish_list not empty: republish.
Republish ==
    /\ running
    /\ publish_list # {}
    /\ \E order \in Orderings(publish_list) :
          published' = [i \in DOMAIN order |-> PubMessage(order[i])]
    /\ lastMsg' = [type |-> "poll"]
    /\ replies' = <<>>
    /\ Deliver(published')
    /\ UNCHANGED <<serverVars, loweredSince, assigned, pc, request_id, accessing, chan,
                   inbox, orphans>>

\* ------------------------------------- messages from arbitrary REQ peers
clientRest == <<pc, request_id, accessing, chan, inbox, orphans>>

EnvRequest ==
    /\ clientid < MaxId
    /\ \E m \in RequestMessages : Handle(m)
    /\ UNCHANGED clientRest

EnvHold ==
    /\ \E m \in HoldMessages : Handle(m)
    /\ UNCHANGED clientRest

EnvRelease ==
    /\ \E m \in ReleaseMessages : Handle(m)
    /\ UNCHANGED clientRest

EnvConfig ==
    /\ \E m \in ConfigMessages : Handle(m)
    /\ UNCHANGED clientRest

EnvReadConfig ==
    /\ Handle(ReadConfigMessage)
    /\ UNCHANGED clientRest

EnvUnknown ==
    /\ Handle(UnknownMessage)
    /\ UNCHANGED clientRest

\* ------------------------------------------- the clients (client.py)
\* The requests the clients' contexts ask for: access_context(resource, False,
\* 1, data_size), a write of one operation on one resource.
ClientRequests ==
    {m \in RequestMessages : m.resource = "r1" /\ ~m.read /\ m.numopts = 1}

\* Request messages sent and not yet read by the broker.
RequestsInFlight ==
    Cardinality({c \in Clients : chan[c] # None /\ chan[c].type = "request"})
    + Len(SelectSeq(orphans, LAMBDA m : m.type = "request"))

\* The broker reads the message on client c's REQ socket, and its first reply
\* (when it sends one) goes back to that socket.
ServeClient(c) ==
    /\ chan[c] # None
    /\ Handle(chan[c])
    /\ chan' = [chan EXCEPT ![c] = None]
    /\ inbox' = [inbox EXCEPT ![c] = IF replies' # <<>> THEN replies'[1] ELSE None]
    /\ UNCHANGED <<pc, request_id, accessing, orphans>>

\* The broker reads a message whose REQ socket was closed after a timeout: the
\* reply goes nowhere.
ServeOrphan ==
    /\ \E i \in DOMAIN orphans :
          /\ Handle(orphans[i])
          /\ orphans' = SubSeq(orphans, 1, i - 1) \o SubSeq(orphans, i + 1, Len(orphans))
    /\ UNCHANGED <<pc, request_id, accessing, chan, inbox>>

\* AccessContext.__enter__ up to the send of _attempt_acquire. With
\* _currently_accessing set the assert fails and nothing is sent.
Enter(c) ==
    /\ pc[c] = "idle"
    /\ ~accessing[c]
    /\ clientid + RequestsInFlight < MaxId
    /\ accessing' = [accessing EXCEPT ![c] = TRUE]
    /\ \E m \in ClientRequests : chan' = [chan EXCEPT ![c] = m]
    /\ pc' = [pc EXCEPT ![c] = "acquire"]
    /\ UNCHANGED <<serverVars, ioVars, loweredSince, assigned, request_id, inbox, heard, orphans>>

\* Mutant of ResetSocket: the timeout is raised with the REQ socket left as it
\* is, its unanswered message still on it.
MutResetSocketKeep(c) ==
    /\ inbox[c] = None
    /\ chan' = chan
    /\ orphans' = orphans

\* _recv_json_safe timed out: the REQ socket is closed (with a linger of one
\* second, so the message it sent is still read by the broker or is lost) and a
\* new one is opened.
ResetSocket(c) ==
    /\ inbox[c] = None
    /\ chan' = [chan EXCEPT ![c] = None]
    /\ \/ orphans' = IF chan[c] # None THEN Append(orphans, chan[c]) ELSE orphans
       \/ chan[c] # None /\ orphans' = orphans

\* _attempt_acquire after the send: the reply of the broker.
AcquireReply(c) ==
    /\ pc[c] = "acquire"
    /\ inbox[c] # None
    /\ inbox' = [inbox EXCEPT ![c] = None]
    /\ IF "invalid" \in DOMAIN inbox[c]
       THEN \* read_config() for the error message
            /\ chan' = [chan EXCEPT ![c] = ReadConfigMessage]
            /\ pc' = [pc EXCEPT ![c] = "readconfig"]
            /\ UNCHANGED <<request_id, heard>>
       ELSE /\ request_id' = [request_id EXCEPT ![c] = inbox[c].id]
            /\ pc' = [pc EXCEPT ![c] = IF inbox[c].available THEN "body" ELSE "subscribing"]
            /\ heard' = [heard EXCEPT ![c] = FALSE]
            /\ UNCHANGED chan
    /\ UNCHANGED <<serverVars, ioVars, loweredSince, assigned, accessing, orphans>>

\* _attempt_acquire: TimeoutError; __enter__ clears the flag and re-raises.
AcquireTimeout(c) ==
    /\ pc[c] = "acquire"
    /\ ResetSocket(c)
    /\ accessing' = [accessing EXCEPT ![c] = FALSE]
    /\ pc' = [pc EXCEPT ![c] = "idle"]
    /\ UNCHANGED <<serverVars, ioVars, loweredSince, assigned, request_id, inbox, heard>>

\* _wait_for_acquire: the SUB socket's subscription reaches the publisher.
Subscribe(c) ==
    /\ pc[c] = "subscribing"
    /\ pc' = [pc EXCEPT ![c] = "waiting"]
    /\ UNCHANGED <<serverVars, ioVars, loweredSince, assigned, request_id, accessing, chan,
                   inbox, heard, orphans>>

\* Mutant of Wake: the publication is taken as the grant and __enter__ returns
\* without the hold exchange.
MutWakeSkipHold(c) ==
    /\ pc[c] = "waiting"
    /\ heard[c]
    /\ heard' = [heard EXCEPT ![c] = FALSE]
    /\ pc' = [pc EXCEPT ![c] = "body"]
    /\ UNCHANGED <<serverVars, ioVars, loweredSince, assigned, request_id, accessing, chan,
                   inbox, orphans>>

\* _wait_for_acquire: sub_socket.recv() returns, the hold message is sent.
Wake(c) ==
    /\ pc[c] = "waiting"
    /\ heard[c]
    /\ heard' = [heard EXCEPT ![c] = FALSE]
    /\ chan' = [chan EXCEPT ![c] = [type |-> "hold", id |-> request_id[c]]]
    /\ pc' = [pc EXCEPT ![c] = "holding"]
    /\ UNCHANGED <<serverVars, ioVars, loweredSince, assigned, request_id, accessing, inbox, orphans>>

\* _wait_for_acquire: the reply to the hold (waited for without a timeout);
\* __enter__ returns.
HoldReply(c) ==
    /\ pc[c] = "holding"
    /\ inbox[c] # None
    /\ inbox' = [inbox EXCEPT ![c] = None]
    /\ pc' = [pc EXCEPT ![c] = "body"]
    /\ UNCHANGED <<serverVars, ioVars, loweredSince, assigned, request_id, accessing, chan,
                   heard, orphans>>

\* The body of the with statement ends: __exit__ sends the release.
Exit(c) ==
    /\ pc[c] = "body"
    /\ chan' = [chan EXCEPT ![c] = [type |-> "release", id |-> request_id[c]]]
    /\ pc' = [pc EXCEPT ![c] = "releasing"]
    /\ UNCHANGED <<serverVars, ioVars, loweredSince, assigned, request_id, accessing, inbox,
                   heard, orphans>>

\* __exit__: the reply to the release; the flag is cleared.
ReleaseReply(c) ==
    /\ pc[c] = "releasing"
    /\ inbox[c] # None
    /\ inbox' = [inbox EXCEPT ![c] = None]
    /\ accessing' = [accessing EXCEPT ![c] = FALSE]
    /\ pc' = [pc EXCEPT ![c] = "idle"]
    /\ UNCHANGED <<serverVars, ioVars, loweredSince, assigned, request_id, chan, heard, orphans>>

\* __exit__: _release raises TimeoutError and the line after it is not reached.
ReleaseTimeout(c) ==
    /\ pc[c] = "releasing"
    /\ ResetSocket(c)
    /\ pc' = [pc EXCEPT ![c] = "idle"]
    /\ UNCHANGED <<serverVars, ioVars, loweredSince, assigned, request_id, accessing, inbox, heard>>

\* ------------------------------------------------------------------ Init
\* run() up to the loop, for any startup config and either value of --debug;
\* every client constructed and outside any context.
InitServer ==
    /\ debug \in BOOLEAN
    /\ running = TRUE
    /\ config \in Configs
    /\ resource_limits = EmptyObj
    /\ current_work_items = EmptyObj
    /\ work_items = <<>>
    /\ clientid = 0
    /\ publish_list = {}
    /\ lastMsg = [type |-> "none"]
    /\ replies = <<>>
    /\ published = <<>>
    /\ loweredSince = {}
    /\ assigned = <<>>

InitClients ==
    /\ pc = [c \in Clients |-> "idle"]
    /\ request_id = [c \in Clients |-> -1]
    /\ accessing = [c \in Clients |-> FALSE]
    /\ chan = [c \in Clients |-> None]
    /\ inbox = [c \in Clients |-> None]
    /\ heard = [c \in Clients |-> FALSE]
    /\ orphans = <<>>

Init == InitServer /\ InitClients

Next ==
    \/ EnvRequest
    \/ EnvHold
    \/ EnvRelease
    \/ EnvConfig
    \/ EnvReadConfig
    \/ EnvUnknown
    \/ Republish

\* The broker with arbitrary peers on its REQ socket.
Spec == Init /\ [][Next]_vars

\* Test.test_2_exclusive_access: the broker started with write_reqs = 1.
InitExclusive == Init /\ config.write_reqs = 1

NextClients ==
    \/ \E c \in Clients : Enter(c)
    \/ \E c \in Clients : ServeClient(c)
    \/ ServeOrphan
    \/ \E c \in Clients : AcquireReply(c)
    \/ \E c \in Clients : AcquireTimeout(c)
    \/ \E c \in Clients : Subscribe(c)
    \/ \E c \in Clients : Wake(c)
    \/ \E c \in Clients : HoldReply(c)
    \/ \E c \in Clients : Exit(c)
    \/ \E c \in Clients : ReleaseReply(c)
    \/ \E c \in Clients : ReleaseTimeout(c)
    \/ Republish

\* The broker with write_reqs = 1 and clients that only use access_context.
SpecClients == InitExclusive /\ [][NextClients]_vars

\* --------------------------------------------- reconfiguring clients
\* The configs the clients of SpecLive send: those that keep write_reqs = 1.
LiveConfigs == {cfg \in Configs : cfg.write_reqs = 1}

\* reconfigure_server(config): the send, from a client that is in no exchange.
SendConfig(c) ==
    /\ pc[c] = "idle"
    /\ \E cfg \in LiveConfigs :
          chan' = [chan EXCEPT ![c] = [type |-> "config", config |-> cfg]]
    /\ pc' = [pc EXCEPT ![c] = "configuring"]
    /\ UNCHANGED <<serverVars, ioVars, loweredSince, assigned, request_id, accessing, inbox,
                   heard, orphans>>

\* reconfigure_server(config): the reply (the echo of the config) is received.
ConfigReply(c) ==
    /\ pc[c] = "configuring"
    /\ inbox[c] # None
    /\ inbox' = [inbox EXCEPT ![c] = None]
    /\ pc' = [pc EXCEPT ![c] = "idle"]
    /\ UNCHANGED <<serverVars, ioVars, loweredSince, assigned, request_id, accessing, chan,
                   heard, orphans>>

\* poller.poll(PUBDELAY) returned nothing: no message was readable on the
\* broker's REP socket for PUBDELAY ms, and the pending grants are republished.
PollTimeout ==
    /\ \A c \in Clients : chan[c] = None
    /\ orphans = <<>>
    /\ Republish

\* The broker and clients whose replies arrive within the clients' timeout.
NextLive ==
    \/ \E c \in Clients : Enter(c)
    \/ \E c \in Clients : ServeClient(c)
    \/ \E c \in Clients : AcquireReply(c)
    \/ \E c \in Clients : Subscribe(c)
    \/ \E c \in Clients : Wake(c)
    \/ \E c \in Clients : HoldReply(c)
    \/ \E c \in Clients : Exit(c)
    \/ \E c \in Clients : ReleaseReply(c)
    \/ \E c \in Clients : SendConfig(c)
    \/ \E c \in Clients : ConfigReply(c)
    \/ PollTimeout

\* What the scheduling guarantees: the broker's loop reads a message that is on
\* its socket, its poll times out when nothing arrives for PUBDELAY ms, and a
\* client goes on once what it waits for has arrived. A client is free to start
\* (or not) a context or a reconfiguration at any time.
FairLive ==
    /\ WF_vars(\E c \in Clients : ServeClient(c))
    /\ WF_vars(PollTimeout)
    /\ \A c \in Clients :
          /\ WF_vars(AcquireReply(c))
          /\ WF_vars(Subscribe(c))
          /\ WF_vars(Wake(c))
          /\ WF_vars(HoldReply(c))
          /\ WF_vars(Exit(c))
          /\ WF_vars(ReleaseReply(c))
          /\ WF_vars(ConfigReply(c))

SpecLive == InitExclusive /\ [][NextLive]_vars /\ FairLive

\* ------------------------------------ peers that follow the protocol
\* The requests of the peers of SpecStarve: writes on one resource.
StarveRequests == {m \in RequestMessages : m.resource = "r1" /\ ~m.read}

\* A peer's request message (_attempt_acquire) is read by the broker.
PeerRequest ==
    /\ clientid < MaxId
    /\ \E m \in StarveRequests : Handle(m)
    /\ UNCHANGED clientRest

\* The peer whose grant i is pending sends its hold (_wait_for_acquire).
PeerHold(i) ==
    /\ i \in publish_list
    /\ Handle([type |-> "hold", id |-> i])
    /\ UNCHANGED clientRest

\* The peer that holds i (granted, and acknowledged when it was queued) sends
\* its release (__exit__).
PeerRelease(i) ==
    /\ i \in DOMAIN current_work_items
    /\ i \notin publish_list
    /\ Handle([type |-> "release", id |-> i])
    /\ UNCHANGED clientRest

NextStarve ==
    \/ PeerRequest
    \/ \E i \in 0 .. MaxId - 1 : PeerHold(i)
    \/ \E i \in 0 .. MaxId - 1 : PeerRelease(i)
    \/ Republish

\* Every grant is eventually acknowledged and every held request is eventually
\* released, the broker reading each of these messages.
FairStarve ==
    \A i \in 0 .. MaxId - 1 : WF_vars(PeerHold(i)) /\ WF_vars(PeerRelease(i))

SpecStarve == Init /\ [][NextStarve]_vars /\ FairStarve

\* -------------------------------------- is_available called on its own
\* Counters a ServerStats object may hold when is_available is called on it.
MaxCount == 3
StatsValues == [read_reqs : 0 .. MaxCount, read_data : 0 .. MaxData + 1,
                write_reqs : 0 .. MaxCount, write_data : 0 .. MaxData + 1]

\* Mutant of IsAvailableCall: new_stats = curr_stats for copy.copy(curr_stats),
\* so the += go to the object of the caller.
MutIsAvailableCallAlias(request, curr_stats, cfg) ==
    [ret |-> is_available(request, curr_stats, cfg),
     curr_stats |-> AddStats(curr_stats, request)]

\* The call is_available(request, curr_stats): the value it returns and the
\* object curr_stats as it leaves it (the += go to the copy new_stats).
IsAvailableCall(request, curr_stats, cfg) ==
    [ret |-> is_available(request, curr_stats, cfg),
     curr_stats |-> curr_stats]

\* A ServerStats object with any counters, under any config.
InitAvailable ==
    /\ debug \in BOOLEAN
    /\ running = TRUE
    /\ config \in Configs
    /\ \E stats \in StatsValues : resource_limits = ("r1" :> stats)
    /\ current_work_items = EmptyObj
    /\ work_items = <<>>
    /\ clientid = 0
    /\ publish_list = {}
    /\ lastMsg = [type |-> "none"]
    /\ replies = <<>>
    /\ published = <<>>
    /\ loweredSince = {}
    /\ assigned = <<>>
    /\ InitClients

\* is_available(request, stats) on the object of resource r1; the value returned
\* is recorded as the reply.
CallIsAvailable ==
    /\ \E m \in RequestMessages :
          \E call \in {IsAvailableCall(m, resource_limits["r1"], config)} :
              /\ lastMsg' = m
              /\ replies' = <<[available |-> call.ret]>>
              /\ resource_limits' = [resource_limits EXCEPT !["r1"] = call.curr_stats]
    /\ UNCHANGED <<debug, running, config, current_work_items, work_items, clientid,
                   publish_list, published, loweredSince, assigned, clientVars>>

SpecAvailable == InitAvailable /\ [][CallIsAvailable]_vars

\* ------------------------- a client among peers, with ids of two digits
\* Request messages the broker numbers in one run of SpecBusy (ids 0 .. 10).
MaxBusyId == 11

\* Number of peers next to the clients in SpecBusy.
NumPeers == 2

\* The requests of the peers of SpecBusy: writes on the clients' resource, no data.
BusyRequests ==
    {m \in RequestMessages : m.resource = "r1" /\ ~m.read /\ m.datasize = 0}

\* The clients that open contexts in SpecBusy.
BusyClients == {1}

\* The ids the broker gave to requests of the clients.
ClientIds ==
    {request_id[c] : c \in Clients}
    \cup {inbox[c].id : c \in {d \in Clients : "id" \in DOMAIN inbox[d]}}

\* The ids the broker gave to requests of the peers.
PeerIds == (0 .. clientid - 1) \ ClientIds

\* The requests of peers that are in the wait queue or the Granted map.
PeerOutstanding ==
    PeerIds \cap ({work_items[i][2].id : i \in DOMAIN work_items}
                  \cup DOMAIN current_work_items)

\* A peer's request message (_attempt_acquire) is read by the broker; each peer
\* has one request outstanding at a time.
BusyRequest ==
    /\ clientid < MaxBusyId
    /\ Cardinality(PeerOutstanding) < NumPeers
    /\ \E m \in BusyRequests : Handle(m)
    /\ UNCHANGED clientRest

\* The peer whose grant i is pending sends its hold (_wait_for_acquire).
BusyHold ==
    /\ \E i \in PeerIds \cap publish_list : Handle([type |-> "hold", id |-> i])
    /\ UNCHANGED clientRest

\* A peer that holds a request sends its release (__exit__).
BusyRelease ==
    /\ \E i \in (PeerIds \cap DOMAIN current_work_items) \ publish_list :
          Handle([type |-> "release", id |-> i])
    /\ UNCHANGED clientRest

NextBusy ==
    \/ \E c \in BusyClients : Enter(c)
    \/ \E c \in BusyClients : ServeClient(c)
    \/ \E c \in BusyClients : AcquireReply(c)
    \/ \E c \in BusyClients : Subscribe(c)
    \/ \E c \in BusyClients : Wake(c)
    \/ \E c \in BusyClients : HoldReply(c)
    \/ \E c \in BusyClients : Exit(c)
    \/ \E c \in BusyClients : ReleaseReply(c)
    \/ BusyRequest
    \/ BusyHold
    \/ BusyRelease
    \/ Republish

\* The broker with clients that use access_context and peers that follow the
\* protocol, for as many requests as it takes to reach an id of two digits.
SpecBusy == Init /\ [][NextBusy]_vars

\* ================================================================ claims
\* The ids of the requests in the wait queue, and where an id stands in it.
QueuedIds(items) == {items[i][2].id : i \in DOMAIN items}
PosInQueue(items, id) == CHOOSE i \in DOMAIN items : items[i][2].id = id

\* The held requests on resource R of one direction, and the sum of a field
\* over a set of held ids.
HeldOn(R, isRead) ==
    {k \in DOMAIN current_work_items :
        current_work_items[k].resource = R /\ current_work_items[k].read = isRead}

RECURSIVE SumOver(_, _)
SumOver(ids, fld) ==
    IF ids = {} THEN 0
    ELSE LET k == CHOOSE x \in ids : TRUE
         IN  current_work_items[k][fld] + SumOver(ids \ {k}, fld)

\* The loop iteration that led to this state received a message (and was not a
\* poll timeout).
Received == lastMsg.type \notin {"none", "poll"}

\* C1 (accounting soundness): in every state between messages, every held
\* request names a resource that has counters, and each of the four counters of
\* every resource equals the sum of numopts (resp. datasize) over the held
\* requests on that resource of the matching direction.
C1_AccountingSound ==
    /\ \A k \in DOMAIN current_work_items :
          current_work_items[k].resource \in DOMAIN resource_limits
    /\ \A R \in DOMAIN resource_limits :
          /\ resource_limits[R].read_reqs = SumOver(HeldOn(R, TRUE), "numopts")
          /\ resource_limits[R].read_data = SumOver(HeldOn(R, TRUE), "datasize")
          /\ resource_limits[R].write_reqs = SumOver(HeldOn(R, FALSE), "numopts")
          /\ resource_limits[R].write_data = SumOver(HeldOn(R, FALSE), "datasize")

\* C1 witness: a release has just been processed and left two requests of one
\* direction held on one resource, with counters that differ from the number
\* of holders.
C1_Witness ==
    /\ lastMsg.type = "release"
    /\ replies = <<EmptyObj>>
    /\ \E R \in DOMAIN resource_limits :
          /\ Cardinality(HeldOn(R, TRUE)) = 2
          /\ resource_limits[R].read_reqs # 2 \/ resource_limits[R].read_data = 1

\* Whether every counter of every resource is within the active ceilings.
WithinCeilings ==
    \A R \in DOMAIN resource_limits :
        /\ resource_limits[R].read_reqs <= config.read_reqs
        /\ resource_limits[R].read_data <= config.read_data
        /\ resource_limits[R].write_reqs <= config.write_reqs
        /\ resource_limits[R].write_data <= config.write_data

\* C2 (ceiling honored): when no current holder was granted before a config
\* message lowered a ceiling, all four counters of every resource are within
\* the ceilings of the active config.
C2_CeilingHonored == (loweredSince = {}) => WithinCeilings

\* C2 witness: a holder admitted on request and a holder admitted by the drain
\* (its grant still unacknowledged) fill a ceiling exactly, after a config
\* message, with no holder left from before a lowering.
C2_Witness ==
    /\ loweredSince = {}
    /\ publish_list # {}
    /\ DOMAIN current_work_items \ publish_list # {}
    /\ \E R \in DOMAIN resource_limits :
          \/ resource_limits[R].read_reqs = config.read_reqs
          \/ resource_limits[R].write_reqs = config.write_reqs

\* The ceilings can be exceeded after a lowering: the reason for C2's proviso.
C2_WithoutProviso == WithinCeilings

\* The clients inside the body of their with statement.
InBody == {c \in Clients : pc[c] = "body"}

\* C3 (exclusive access end to end): with write_reqs = 1 and clients that each
\* use access_context for a write of one operation on the same resource, at
\* most one client is in its body at any time and its request is then the only
\* held one (so a queued client enters only after the holder's release has been
\* processed); and a request message that the broker processes while a client
\* is in its body is answered available:false.
C3_ExclusiveAccess ==
    /\ [](/\ Cardinality(InBody) <= 1
          /\ \A c \in InBody :
                running => DOMAIN current_work_items = {request_id[c]})
    /\ [][(clientid' = clientid + 1 /\ InBody # {})
             => replies' = <<[available |-> FALSE, id |-> clientid]>>]_vars

\* C3 witness: a client whose request was queued behind another client's is in
\* its body, the hold for its grant being the last message the broker
\* processed, while the other client has left its context.
C3_Witness ==
    \E c, d \in Clients :
        /\ pc[c] = "body"
        /\ pc[d] = "idle"
        /\ request_id[d] >= 0
        /\ request_id[c] > request_id[d]
        /\ lastMsg = [type |-> "hold", id |-> request_id[c]]

\* A step of the broker's loop (the clients' own steps leave these unchanged).
ServerStep == <<serverVars, ioVars>>' # <<serverVars, ioVars>>

\* The step is a loop iteration that processes a request message.
RequestStep == ServerStep /\ running' /\ lastMsg'.type = "request"

\* The step processes a request message of one operation on a resource on
\* which exactly one request is held, of one operation and of the other
\* direction, with both ceilings on request counts at 1 and no data ceiling
\* exceeded by what is held or by the new request.
C4_Case ==
    /\ RequestStep
    /\ config.read_reqs = 1
    /\ config.write_reqs = 1
    /\ lastMsg'.numopts = 1
    /\ lastMsg'.resource \in DOMAIN resource_limits
    /\ \E k \in DOMAIN current_work_items :
          /\ HeldOn(lastMsg'.resource, TRUE) \cup HeldOn(lastMsg'.resource, FALSE) = {k}
          /\ current_work_items[k].read = ~lastMsg'.read
          /\ current_work_items[k].numopts = 1
    /\ resource_limits[lastMsg'.resource].read_data <= config.read_data
    /\ resource_limits[lastMsg'.resource].write_data <= config.write_data
    /\ lastMsg'.datasize <= IF lastMsg'.read THEN config.read_data ELSE config.write_data

Infeasible(m, cfg) ==
    IF m.read
    THEN m.numopts > cfg.read_reqs \/ m.datasize > cfg.read_data
    ELSE m.numopts > cfg.write_reqs \/ m.datasize > cfg.write_data

\* C5 (infeasible request): a request whose numopts or datasize exceeds the
\* ceiling of its direction is answered with invalid:true and the assigned id,
\* and that id is neither queued nor held.
C5_InfeasibleRejected ==
    (running /\ lastMsg.type = "request" /\ Infeasible(lastMsg, config))
        => /\ Len(replies) = 1
           /\ "invalid" \in DOMAIN replies[1]
           /\ replies[1].invalid = TRUE
           /\ replies[1].id = assigned[Len(assigned)]
           /\ assigned[Len(assigned)] \notin QueuedIds(work_items)
           /\ assigned[Len(assigned)] \notin DOMAIN current_work_items

\* C6 (read-config): a read-config message is answered with
\* {type: read-config, config: the active config} and the broker keeps serving.
C6_ReadConfigAnswered ==
    (lastMsg.type = "read-config")
        => /\ running
           /\ replies = <<[type |-> "read-config", config |-> config]>>

\* C7 (exactly one reply): the loop iteration that received a message sent
\* exactly one reply.
C7_ExactlyOneReply == Received => Len(replies) = 1

\* C8 (FIFO order): a request that enters the wait queue enters behind every
\* request already in it, and two requests that are queued before and after a
\* step keep their order.
C8_FifoOrder ==
    [][/\ \A a, b \in QueuedIds(work_items) \cap QueuedIds(work_items') :
             PosInQueue(work_items, a) < PosInQueue(work_items, b)
                 => PosInQueue(work_items', a) < PosInQueue(work_items', b)
       /\ \A a \in QueuedIds(work_items) \cap QueuedIds(work_items') :
             \A b \in QueuedIds(work_items') \ QueuedIds(work_items) :
                 PosInQueue(work_items', a) < PosInQueue(work_items', b)]_vars

\* C8 witness: a release has just been processed whose drain popped the head of
\* a queue of two or more, could not admit it and put it back.
C8_Witness ==
    /\ lastMsg.type = "release"
    /\ replies = <<EmptyObj>>
    /\ published = <<>>
    /\ Len(work_items) >= 2

\* C9 (id uniqueness and monotonicity): the ids the broker assigns are strictly
\* increasing; every processed request message gets the next id, which is the
\* id in the reply and of the stored request; no other message consumes an id.
C9_IdsMonotone ==
    /\ [](\A i, j \in DOMAIN assigned : i < j => assigned[i] < assigned[j])
    /\ [][(ServerStep /\ running')
             => IF lastMsg'.type = "request"
                THEN /\ Len(assigned') = Len(assigned) + 1
                     /\ SubSeq(assigned', 1, Len(assigned)) = assigned
                     /\ replies'[1].id = assigned'[Len(assigned')]
                     /\ \A i \in DOMAIN assigned : assigned[i] < replies'[1].id
                     /\ \/ /\ replies'[1].id \in DOMAIN current_work_items'
                           /\ current_work_items'[replies'[1].id].id = replies'[1].id
                        \/ replies'[1].id \in QueuedIds(work_items')
                ELSE assigned' = assigned /\ clientid' = clientid]_vars

\* C9 witness: three request messages have been numbered, the last one just
\* now, and of them one is queued and one is held.
C9_Witness ==
    /\ lastMsg.type = "request"
    /\ Len(assigned) >= 3
    /\ work_items # <<>>
    /\ DOMAIN current_work_items # {}

\* C10 (drain completeness): when the broker has finished processing a release
\* message, the wait queue is empty or its head is not admissible under the
\* counters and the config of that state.
C10_DrainComplete ==
    (lastMsg.type = "release" /\ replies = <<EmptyObj>>)
        => \/ work_items = <<>>
           \/ LET head == work_items[1][2]
              IN  /\ head.resource \in DOMAIN resource_limits
                  /\ LET st == resource_limits[head.resource]
                     IN  IF head.read
                         THEN \/ st.read_reqs + head.numopts > config.read_reqs
                              \/ st.read_data + head.datasize > config.read_data
                              \/ st.write_reqs > config.write_reqs
                              \/ st.write_data > config.write_data
                         ELSE \/ st.write_reqs + head.numopts > config.write_reqs
                              \/ st.write_data + head.datasize > config.write_data
                              \/ st.read_reqs > config.read_reqs
                              \/ st.read_data > config.read_data

\* C10 witness: a release has just been processed whose drain granted one
\* waiter and stopped at the next.
C10_Witness ==
    /\ lastMsg.type = "release"
    /\ replies = <<EmptyObj>>
    /\ Len(published) >= 1
    /\ work_items # <<>>

\* The head of the wait queue is not admissible under the counters and the
\* config of the state: adding it to the counters of its resource (zero when the
\* resource has none yet) would put one of the four above its ceiling.
HeadBlocked ==
    LET head == work_items[1][2]
        st == IF head.resource \in DOMAIN resource_limits
              THEN resource_limits[head.resource] ELSE ZeroStats
        rq == IF head.read THEN head.numopts ELSE 0
        rd == IF head.read THEN head.datasize ELSE 0
        wq == IF head.read THEN 0 ELSE head.numopts
        wd == IF head.read THEN 0 ELSE head.datasize
    IN  \/ st.read_reqs + rq > config.read_reqs
        \/ st.read_data + rd > config.read_data
        \/ st.write_reqs + wq > config.write_reqs
        \/ st.write_data + wd > config.write_data

\* The step is a loop iteration that processes a config message.
ConfigStep == ServerStep /\ running' /\ lastMsg'.type = "config"

\* The messages the broker published in the last loop iteration.
PublishedNow == {published[i] : i \in DOMAIN published}

\* C13 (reconfiguration drains the queue): when the broker has finished
\* processing a config message, the wait queue is empty or its head is not
\* admissible under the new config, and every waiter that left the queue in
\* that step is granted, pending and published.
C13_ConfigDrains ==
    [][ConfigStep
         => /\ work_items' = <<>> \/ HeadBlocked'
            /\ \A id \in QueuedIds(work_items) \ QueuedIds(work_items') :
                  /\ id \in DOMAIN current_work_items'
                  /\ id \in publish_list'
                  /\ PubMessage(id) \in PublishedNow']_vars

\* The request of a request message fits under the ceilings of cfg when added
\* to the counters its resource has in limits (zero when it has none).
FitsNow(m, limits, cfg) ==
    LET st == IF m.resource \in DOMAIN limits THEN limits[m.resource] ELSE ZeroStats
    IN  IF m.read
        THEN /\ st.read_reqs + m.numopts <= cfg.read_reqs
             /\ st.read_data + m.datasize <= cfg.read_data
             /\ st.write_reqs <= cfg.write_reqs
             /\ st.write_data <= cfg.write_data
        ELSE /\ st.write_reqs + m.numopts <= cfg.write_reqs
             /\ st.write_data + m.datasize <= cfg.write_data
             /\ st.read_reqs <= cfg.read_reqs
             /\ st.read_data <= cfg.read_data

\* C14 (reconfiguration does not revoke): a config message replaces the active
\* config by the one it carries and is answered with it, and leaves the
\* counters, the Granted map and the next id as they are; no other message
\* changes the config; and a request message is answered available:true exactly
\* when it fits under the ceilings of the active config.
C14_ConfigKeepsGrants ==
    [][/\ ConfigStep
             => /\ config' = lastMsg'.config
                /\ replies' = <<lastMsg'.config>>
                /\ resource_limits' = resource_limits
                /\ current_work_items' = current_work_items
                /\ clientid' = clientid
       /\ (ServerStep /\ lastMsg'.type # "config") => config' = config
       /\ RequestStep
             => replies'[1].available = FitsNow(lastMsg', resource_limits, config)]_vars

\* C14 witness: a config message has just been processed that left a counter
\* above its new ceiling, with the holders still in the Granted map.
C14_Witness ==
    /\ running
    /\ lastMsg.type = "config"
    /\ replies = <<config>>
    /\ ~WithinCeilings
    /\ loweredSince # {}
    /\ loweredSince = DOMAIN current_work_items

\* C15 (pending grants are granted): every id in the pending-grant set is a key
\* of the Granted map.
C15_PendingAreGranted == publish_list \subseteq DOMAIN current_work_items

\* C16 (queue and Granted are disjoint): no id is both in the wait queue and a
\* key of the Granted map, and no id occurs twice in the wait queue.
C16_QueueGrantedDisjoint ==
    /\ QueuedIds(work_items) \cap DOMAIN current_work_items = {}
    /\ \A i, j \in DOMAIN work_items :
          i # j => work_items[i][2].id # work_items[j][2].id

\* C16 witness: a release has just been processed whose drain moved one waiter
\* from the queue to the Granted map (it is pending) and left another queued.
C16_Witness ==
    /\ lastMsg.type = "release"
    /\ running
    /\ work_items # <<>>
    /\ publish_list \cap DOMAIN current_work_items # {}
    /\ \E id \in publish_list : PubMessage(id) \in PublishedNow

\* The message received in the step is of unknown type, or is a hold whose id
\* is not in the pending-grant set.
Offending ==
    \/ lastMsg' = UnknownMessage
    \/ lastMsg'.type = "hold" /\ lastMsg'.id \notin publish_list

\* C17 (protocol violations are survivable): a broker that is not in debug mode
\* and receives a message of unknown type, or a hold whose id is not pending,
\* replies {} and keeps running, with the counters, the wait queue, the Granted
\* map and the pending-grant set unchanged.
C17_ViolationsSurvivable ==
    [][(running /\ ~debug /\ ServerStep /\ Offending)
         => /\ running'
            /\ replies' = <<EmptyObj>>
            /\ UNCHANGED <<resource_limits, work_items, current_work_items,
                           publish_list>>]_vars

\* Where an id stands in its lifecycle: 0 not yet assigned, 1 queued, 2 granted
\* and pending (published, hold not received), 3 held, 4 done (released).
Stage(id) ==
    IF id >= clientid THEN 0
    ELSE IF id \in QueuedIds(work_items) THEN 1
    ELSE IF id \in DOMAIN current_work_items /\ id \in publish_list THEN 2
    ELSE IF id \in DOMAIN current_work_items THEN 3
    ELSE 4

\* C20 (per-id lifecycle is monotone): in every step of a running broker each
\* id stays where it is or moves forward; a new id becomes held or queued; an id
\* becomes pending only from the queue and leaves pending only by becoming
\* held; an id is done only after it was held; and an id that is done is in
\* none of the wait queue, the Granted map and the pending-grant set.
C20_LifecycleMonotone ==
    [][running'
         => \A id \in 0 .. MaxId - 1 :
               /\ Stage(id)' >= Stage(id)
               /\ (Stage(id) = 0 /\ Stage(id)' # 0) => Stage(id)' \in {1, 3}
               /\ (Stage(id)' = 2 /\ Stage(id) # 2) => Stage(id) = 1
               /\ (Stage(id) = 2 /\ Stage(id)' # 2) => Stage(id)' = 3
               /\ (Stage(id)' = 4 /\ Stage(id) # 4) => Stage(id) = 3
               /\ Stage(id)' = 4 => id \notin publish_list']_vars

\* The pc values at which a client's REQ socket has a send that is not yet
\* answered by a receive.
Awaiting == {"acquire", "holding", "releasing", "readconfig", "configuring"}

\* Whether m is a release message.
IsRelease(m) == m # None /\ m.type = "release"

\* C18 (release on all exit paths): a client leaves the body of its context
\* only by sending release{id: X} for the id X its __enter__ returned with; it
\* sends a release in no other step; it entered the body on an available:true
\* reply carrying X or on the reply to its hold, and at the release X is granted
\* and not pending; and the broker receives no second release for an id.
C18_ReleaseOnExit ==
    [][/\ \A c \in Clients :
             /\ (pc[c] = "body" /\ pc'[c] # "body")
                   => /\ pc'[c] = "releasing"
                      /\ chan'[c] = [type |-> "release", id |-> request_id[c]]
             /\ (chan'[c] # chan[c] /\ IsRelease(chan'[c]))
                   => /\ pc[c] = "body"
                      /\ running => /\ request_id[c] \in DOMAIN current_work_items
                                    /\ request_id[c] \notin publish_list
             /\ (pc'[c] = "body" /\ pc[c] # "body")
                   => /\ inbox[c] # None
                      /\ \/ /\ pc[c] = "acquire"
                            /\ "available" \in DOMAIN inbox[c]
                            /\ inbox[c].available
                            /\ inbox[c].id = request_id'[c]
                         \/ /\ pc[c] = "holding"
                            /\ inbox[c] = EmptyObj
                            /\ request_id'[c] = request_id[c]
       /\ (ServerStep /\ lastMsg'.type = "release")
             => lastMsg'.id \in DOMAIN current_work_items]_vars

\* C18 witness: a client whose request was queued has been granted by a drain,
\* has sent its hold, has been in its body and has just sent its release.
C18_Witness ==
    \E c \in Clients :
        /\ pc[c] = "releasing"
        /\ chan[c] = [type |-> "release", id |-> request_id[c]]
        /\ lastMsg = [type |-> "hold", id |-> request_id[c]]

\* C19 (client timeout recovery): a timeout of _attempt_acquire or _release
\* leaves the client with a fresh REQ socket (nothing sent on it, no reply
\* waiting on it; the message of the old socket is read by the broker later or
\* lost); a client sends only on a socket with no unanswered send, after having
\* received the reply to its previous send or replaced the socket; and a reply
\* reaches a client only for the send outstanding on its current socket.
C19_TimeoutRecovery ==
    [][\A c \in Clients :
          /\ (pc[c] \in {"acquire", "releasing"} /\ pc'[c] = "idle" /\ inbox[c] = None)
                => /\ chan'[c] = None
                   /\ inbox'[c] = None
                   /\ \/ orphans' = orphans
                      \/ chan[c] # None /\ orphans' = Append(orphans, chan[c])
          /\ (chan'[c] # None /\ chan'[c] # chan[c])
                => /\ chan[c] = None
                   /\ inbox'[c] = None
                   /\ pc'[c] \in Awaiting
                   /\ pc[c] \notin Awaiting \/ inbox[c] # None
          /\ (inbox'[c] # None /\ inbox'[c] # inbox[c])
                => /\ chan[c] # None
                   /\ chan'[c] = None
                   /\ inbox[c] = None
                   /\ pc[c] \in Awaiting]_vars

\* C19 witness: a request message sent on a socket that was closed after a
\* timeout is still unread, and both clients have a request outstanding on
\* their current sockets: one of them has timed out and sent again.
C19_Witness ==
    /\ \A c \in Clients : pc[c] = "acquire" /\ chan[c] # None
    /\ \E i \in DOMAIN orphans : orphans[i].type = "request"

\* The broker has just republished the notification of id on a poll timeout.
RepublishedNow(id) == lastMsg.type = "poll" /\ PubMessage(id) \in PublishedNow

\* C11 (re-publication until acknowledged): whenever an id is in the
\* pending-grant set, later its hold has been received or its notification has
\* been published again, whatever the other clients send meanwhile.
C11_RepublishedUntilAck ==
    \A id \in 0 .. MaxId - 1 :
        (id \in publish_list) ~> (id \notin publish_list \/ RepublishedNow(id))

\* The request that is queued under id.
QueuedRequest(id) == work_items[PosInQueue(work_items, id)][2]

\* C12 (starvation-freedom): a request that is in the wait queue and fits
\* within the ceilings of the config on its own is eventually in the Granted
\* map, when every grant is eventually acknowledged and every held request is
\* eventually released.
C12_QueuedEventuallyGranted ==
    \A id \in 0 .. MaxId - 1 :
        (/\ id \in QueuedIds(work_items)
         /\ ~Infeasible(QueuedRequest(id), config))
            ~> (id \in DOMAIN current_work_items)

\* The four counters that is_available compares with the ceilings: those of
\* stats with numopts and datasize of m added to the pair of m's direction.
Projected(m, stats) ==
    [read_reqs |-> stats.read_reqs + (IF m.read THEN m.numopts ELSE 0),
     read_data |-> stats.read_data + (IF m.read THEN m.datasize ELSE 0),
     write_reqs |-> stats.write_reqs + (IF m.read THEN 0 ELSE m.numopts),
     write_data |-> stats.write_data + (IF m.read THEN 0 ELSE m.datasize)]

CounterNames == {"read_reqs", "read_data", "write_reqs", "write_data"}

\* What a request adds to counter fld of resource R while it is held.
Contribution(req, R, fld) ==
    IF req.resource # R THEN 0
    ELSE IF req.read /\ fld = "read_reqs" THEN req.numopts
    ELSE IF req.read /\ fld = "read_data" THEN req.datasize
    ELSE IF ~req.read /\ fld = "write_reqs" THEN req.numopts
    ELSE IF ~req.read /\ fld = "write_data" THEN req.datasize
    ELSE 0

RECURSIVE TotalOf(_, _, _)
TotalOf(reqs, R, fld) ==
    IF reqs = {} THEN 0
    ELSE LET r == CHOOSE x \in reqs : TRUE
         IN  Contribution(r, R, fld) + TotalOf(reqs \ {r}, R, fld)

\* Counter fld of resource R in limits; a resource without counters counts zero.
CounterOf(limits, R, fld) == IF R \in DOMAIN limits THEN limits[R][fld] ELSE 0

\* The step is a loop iteration that processes a release message.
ReleaseStep == ServerStep /\ running' /\ lastMsg'.type = "release"

\* C22 (admit/release round trip): a request admitted on arrival is stored as
\* it was sent and adds its numopts and datasize to the counters of its resource
\* and direction; a stored request does not change while it is held; a release
\* subtracts exactly what is stored for its id (the counters afterwards are
\* those before, less the stored amounts, plus the amounts of the waiters the
\* same release granted); in every state, admitting any request and releasing
\* it at once would leave every counter of every resource as it is; and when
\* the Granted map is empty every counter is zero.
C22_RoundTrip ==
    /\ [](/\ \A m \in RequestMessages :
                LET req == [type |-> "request", resource |-> m.resource, read |-> m.read,
                            numopts |-> m.numopts, datasize |-> m.datasize, id |-> clientid]
                    rr == request_resource(resource_limits, current_work_items, req, config)
                    fin == finish_work(rr.limits, rr.current, clientid)
                IN  (running /\ rr.ok)
                       => /\ fin.current = current_work_items
                          /\ \A R \in Resources : \A fld \in CounterNames :
                                CounterOf(fin.limits, R, fld) = CounterOf(resource_limits, R, fld)
          /\ current_work_items = EmptyObj
                => \A R \in DOMAIN resource_limits : resource_limits[R] = ZeroStats)
    /\ [][/\ (RequestStep /\ replies'[1].available)
                => /\ current_work_items'[clientid].resource = lastMsg'.resource
                   /\ current_work_items'[clientid].read = lastMsg'.read
                   /\ current_work_items'[clientid].numopts = lastMsg'.numopts
                   /\ current_work_items'[clientid].datasize = lastMsg'.datasize
                   /\ \A R \in Resources : \A fld \in CounterNames :
                         CounterOf(resource_limits', R, fld)
                            = CounterOf(resource_limits, R, fld)
                              + Contribution(lastMsg', R, fld)
          /\ running'
                => \A k \in DOMAIN current_work_items \cap DOMAIN current_work_items' :
                      current_work_items'[k] = current_work_items[k]
          /\ ReleaseStep
                => LET stored == current_work_items[lastMsg'.id]
                       granted == {current_work_items'[k] :
                                      k \in DOMAIN current_work_items' \ DOMAIN current_work_items}
                   IN  /\ lastMsg'.id \notin DOMAIN current_work_items'
                       /\ \A R \in Resources : \A fld \in CounterNames :
                             CounterOf(resource_limits', R, fld)
                                = CounterOf(resource_limits, R, fld)
                                  - Contribution(stored, R, fld)
                                  + TotalOf(granted, R, fld)]_vars

\* C22 witness: the request with the last id assigned has just been released,
\* its release granted no waiter, and another request is still held on a
\* resource whose counters are therefore not zero.
C22_Witness ==
    /\ running
    /\ lastMsg = [type |-> "release", id |-> clientid - 1]
    /\ replies = <<EmptyObj>>
    /\ published = <<>>
    /\ publish_list = {}
    /\ work_items = <<>>
    /\ \E k \in DOMAIN current_work_items :
          /\ current_work_items[k].datasize = 1
          /\ resource_limits[current_work_items[k].resource] # ZeroStats

\* C23 (counters never go negative): each of the four counters of every
\* resource is at least zero in every reachable state, whatever messages the
\* broker has received, a repeated release and a release for an id that was
\* never granted among them.
C23_CountersNonNegative ==
    \A R \in DOMAIN resource_limits : \A fld \in CounterNames :
        resource_limits[R][fld] >= 0

\* C23 witness: the broker has received a release for an id it had assigned
\* and that was not in the Granted map (released before, or still queued), and
\* finish_work raised before any subtraction.
C23_Witness ==
    /\ ~running
    /\ lastMsg.type = "release"
    /\ \E i \in DOMAIN assigned : assigned[i] = lastMsg.id

\* The ids that enter the pending-grant set in the step.
NewlyPending == publish_list' \ publish_list

\* C24 (strict head-of-line drain): only a release step makes ids pending; the
\* waiters it grants are a prefix of the wait queue, published in queue order
\* and removed from the queue, the rest of which is left as it is; the drain
\* stops at the first waiter that is not admissible; and every id that becomes
\* pending stood in the queue before every id that stays queued.
C24_HeadOfLine ==
    [][running'
         => /\ NewlyPending # {} => ReleaseStep
            /\ ReleaseStep
                  => LET n == Len(published')
                     IN  /\ n <= Len(work_items)
                         /\ work_items' = SubSeq(work_items, n + 1, Len(work_items))
                         /\ published' = [i \in 1 .. n |-> PubMessage(work_items[i][2].id)]
                         /\ NewlyPending = {work_items[i][2].id : i \in 1 .. n} \ publish_list
                         /\ \A i \in 1 .. n : work_items[i][2].id \in DOMAIN current_work_items'
                         /\ work_items' = <<>> \/ HeadBlocked'
            /\ \A id \in NewlyPending :
                  /\ id \in QueuedIds(work_items)
                  /\ \A q \in QueuedIds(work_items') :
                        PosInQueue(work_items, id) < PosInQueue(work_items, q)]_vars

\* C24 witness: a release has just been processed whose drain stopped at a head
\* that is not admissible, while the waiter behind it is smaller and would fit.
C24_Witness ==
    /\ running
    /\ lastMsg.type = "release"
    /\ replies = <<EmptyObj>>
    /\ Len(work_items) >= 2
    /\ HeadBlocked
    /\ work_items[2][2].numopts < work_items[1][2].numopts
    /\ FitsNow(work_items[2][2], resource_limits, config)

\* C25 (publishes name only pending grants): every notification published in a
\* loop iteration names an id that is in the pending-grant set; a poll timeout
\* publishes exactly the pending ids and only when there are some; only a
\* release and a poll timeout publish; an id becomes pending only from the wait
\* queue, and an id enters the queue only as the id of a request answered
\* available:false, so a request admitted on arrival is never pending; a hold
\* takes its id out of the pending-grant set, and no pending id is queued.
C25_PublishOnlyPending ==
    [][running'
         => /\ \A i \in DOMAIN published' :
                  \E id \in publish_list' : published'[i] = PubMessage(id)
            /\ lastMsg'.type = "poll"
                  => /\ publish_list # {}
                     /\ publish_list' = publish_list
                     /\ {published'[i] : i \in DOMAIN published'}
                           = {PubMessage(id) : id \in publish_list}
            /\ lastMsg'.type \notin {"poll", "release"} => published' = <<>>
            /\ NewlyPending \subseteq QueuedIds(work_items)
            /\ QueuedIds(work_items') \ QueuedIds(work_items)
                  \subseteq (IF RequestStep /\ ~replies'[1].available
                             THEN {clientid} ELSE {})
            /\ (RequestStep /\ replies'[1].available)
                  => /\ clientid \notin publish_list'
                     /\ clientid \notin QueuedIds(work_items')
            /\ lastMsg'.type = "hold" => lastMsg'.id \notin publish_list'
            /\ publish_list' \cap QueuedIds(work_items') = {}]_vars

\* C25 witness: a poll timeout has just republished the notifications of two
\* pending grants.
C25_Witness ==
    /\ running
    /\ lastMsg.type = "poll"
    /\ Len(published) = 2
    /\ Cardinality(publish_list) = 2

\* C26 (a waiting client is woken only by its own grant): a publication reaches
\* the SUB socket of a waiting client only in an iteration that publishes the
\* notification of the client's own id; the client sends hold{id: X} only after
\* that; and X is in the pending-grant set when the hold is processed.
C26_WokenByOwnGrant ==
    [][\A c \in Clients :
          /\ (~heard[c] /\ heard'[c])
                => /\ pc[c] = "waiting"
                   /\ PubMessage(request_id[c]) \in PublishedNow'
          /\ (pc[c] = "waiting" /\ pc'[c] # "waiting")
                => /\ heard[c]
                   /\ chan'[c] = [type |-> "hold", id |-> request_id[c]]
          /\ (chan[c] # None /\ chan[c].type = "hold" /\ chan'[c] = None)
                => chan[c].id \in publish_list]_vars

\* The resources of the requests that enter or leave the Granted map in the step.
Touched ==
    {current_work_items'[k].resource :
        k \in DOMAIN current_work_items' \ DOMAIN current_work_items}
    \cup {current_work_items[k].resource :
            k \in DOMAIN current_work_items \ DOMAIN current_work_items'}

\* C27 (per-resource independence): a step changes the counters only of the
\* resources of the requests it commits or releases, and a request message is
\* answered available:true exactly when the counters of its own resource, with
\* the request added, are within the ceilings of the config, whatever is held
\* or queued for other resources.
C27_ResourceIndependence ==
    [][running'
         => /\ \A R \in Resources \ Touched : \A fld \in CounterNames :
                  CounterOf(resource_limits', R, fld) = CounterOf(resource_limits, R, fld)
            /\ RequestStep
                  => LET R == lastMsg'.resource
                         own == [fld \in CounterNames |-> CounterOf(resource_limits, R, fld)]
                         p == Projected(lastMsg', own)
                     IN  /\ Touched \subseteq {R}
                         /\ replies'[1].available
                               <=> \A fld \in CounterNames : p[fld] <= config[fld]]_vars

\* C27 witness: a request has just been admitted on arrival on one resource
\* while a request for the other resource waits at the head of the queue,
\* blocked by what is held there.
C27_Witness ==
    /\ running
    /\ lastMsg.type = "request"
    /\ replies = <<[available |-> TRUE, id |-> clientid - 1]>>
    /\ work_items # <<>>
    /\ work_items[1][2].resource # lastMsg.resource
    /\ ~Infeasible(work_items[1][2], config)
    /\ HeadBlocked

\* C28 (no leaked reservation): when every client is outside any context, the
\* broker has no entry in the Granted map, the wait queue or the pending-grant
\* set (every id is assigned to a request of one of these clients).
C28_NoLeakedReservation ==
    (running /\ \A c \in Clients : pc[c] = "idle")
        => /\ current_work_items = EmptyObj
           /\ work_items = <<>>
           /\ publish_list = {}

\* C29 (client access flag): _currently_accessing of a client is true exactly
\* while the client is inside __enter__, the body or __exit__ of a context, so
\* it is false whenever the client is outside any context, however the last
\* context ended, and a new context can then be opened.
C29_AccessFlag ==
    \A c \in Clients : accessing[c] <=> pc[c] # "idle"

====
